---- MODULE Spec2Model ----
(***************************************************************************)
(* Interview session engine of Prep-Ai: the InterviewSession component     *)
(* (src/src/pages/Pricing.tsx, lines 317-859) and the SpeechService it     *)
(* drives (src/src/lib/speech.ts).                                         *)
(*                                                                         *)
(* One action is one JavaScript task: a user event handler run up to its   *)
(* first await, or a platform / collaborator event together with the       *)
(* promise continuations (microtasks) it releases, run up to their next    *)
(* await.  A handler reads the React state of the render in which it was   *)
(* created, so values it reads after an await are the values captured when *)
(* it was invoked.                                                         *)
(***************************************************************************)
EXTENDS Integers, Sequences, FiniteSets, TLC

(* ----------------------------- bounds -------------------------------- *)
MaxSubmits == 2
MaxOrphans == 1
MaxResults == 1
MaxTime == 1
MaxVoices == 3

(* ------------------------- values and strings ------------------------ *)
\* Text is a sequence of characters; " " is the only whitespace used.
Inputs == { <<>>, <<" ">>, <<" ", "a">> }
Replies == { <<>>, <<"q">> }
Fragments == { <<"a", " ">> }

NoId == 0
RecordId == 1
NoProc == -1
StartProc == 0
Client == -2
Cycles == 1..MaxSubmits
Procs == 0..MaxSubmits

RECURSIVE TrimStart(_)
TrimStart(s) ==
  IF s = <<>> THEN <<>>
  ELSE IF Head(s) = " " THEN TrimStart(Tail(s)) ELSE s

RECURSIVE TrimEnd(_)
TrimEnd(s) ==
  IF s = <<>> THEN <<>>
  ELSE IF s[Len(s)] = " " THEN TrimEnd(SubSeq(s, 1, Len(s) - 1)) ELSE s

\* String.prototype.trim
Trim(s) == TrimEnd(TrimStart(s))

AiMessage(text) == [type |-> "ai", content |-> text]
UserMessage(text) == [type |-> "user", content |-> text]

(* --------------------------- feedback reports ------------------------ *)
NoReport == [none |-> TRUE]

\* The report the interviewer collaborator produces (lib/gemini, FeedbackReport).
GeneratedFeedback ==
  [ overallScore |-> 88,
    breakdown |-> [ communication |-> 90, technical |-> 85,
                    problemSolving |-> 80, confidence |-> 95 ],
    feedback |-> "generated",
    recommendations |-> << "generated recommendation" >> ]

\* endInterview's catch block
basicFeedback ==
  [ overallScore |-> 75,
    breakdown |-> [ technical |-> 75, communication |-> 80,
                    problemSolving |-> 70, cultural |-> 80 ],
    feedback |-> "Interview completed successfully. Thank you for practicing with PrepAI!",
    recommendations |-> << "Continue practicing regularly to improve your skills",
                           "Focus on providing specific examples in your answers",
                           "Work on clear and confident communication" >> ]

(* ------------------- SpeechService: voice selection ------------------ *)
\* A voice is its name, a sequence of words, and its language tag, a sequence
\* of subtags; matching on names is by whole words.
Voice(name, lang) == [name |-> name, lang |-> lang]
NoVoice == [none |-> TRUE]

\* The voices a platform may offer.
VoiceUniverse ==
  { Voice(<< "Samantha" >>, << "en", "US" >>),
    Voice(<< "Google", "UK", "English", "Female" >>, << "en", "GB" >>),
    Voice(<< "Microsoft", "Aria", "Online", "Natural" >>, << "EN", "US" >>),
    Voice(<< "Fred" >>, << "en", "US" >>),
    Voice(<< "Kathy", "Female" >>, << "en", "US" >>),
    Voice(<< "Amelie" >>, << "fr", "CA" >>) }

\* What synthesis.getVoices() may return: up to MaxVoices distinct voices in
\* some order.
VoiceLists ==
  UNION { { vs \in [1..n -> VoiceUniverse] :
              \A i, j \in 1..n : i # j => vs[i] # vs[j] } : n \in 0..MaxVoices }

\* String.prototype.toLowerCase, word by word
Lower(w) ==
  CASE w = "Google" -> "google"     [] w = "US" -> "us"
    [] w = "UK" -> "uk"             [] w = "GB" -> "gb"
    [] w = "CA" -> "ca"             [] w = "EN" -> "en"
    [] w = "English" -> "english"   [] w = "Female" -> "female"
    [] w = "Male" -> "male"         [] w = "Microsoft" -> "microsoft"
    [] w = "Zira" -> "zira"         [] w = "Desktop" -> "desktop"
    [] w = "David" -> "david"       [] w = "Hazel" -> "hazel"
    [] w = "Mark" -> "mark"         [] w = "Samantha" -> "samantha"
    [] w = "Alex" -> "alex"         [] w = "Victoria" -> "victoria"
    [] w = "Karen" -> "karen"       [] w = "Moira" -> "moira"
    [] w = "Fiona" -> "fiona"       [] w = "Daniel" -> "daniel"
    [] w = "Tessa" -> "tessa"       [] w = "Veena" -> "veena"
    [] w = "Rishi" -> "rishi"       [] w = "Aria" -> "aria"
    [] w = "Online" -> "online"     [] w = "Natural" -> "natural"
    [] w = "Fred" -> "fred"         [] w = "Kathy" -> "kathy"
    [] w = "Amelie" -> "amelie"
    [] OTHER -> w

LowerCase(ws) == [i \in 1..Len(ws) |-> Lower(ws[i])]

\* String.prototype.includes
Includes(ws, part) ==
  \E i \in 1..(Len(ws) - Len(part) + 1) : SubSeq(ws, i, i + Len(part) - 1) = part

\* RegExp.prototype.test for the patterns w and w1.*w2: the words occur in order
RECURSIVE PatternTest(_, _)
PatternTest(pattern, ws) ==
  IF pattern = <<>> THEN TRUE
  ELSE IF ws = <<>> THEN FALSE
  ELSE IF Head(ws) = Head(pattern) THEN PatternTest(Tail(pattern), Tail(ws))
  ELSE PatternTest(pattern, Tail(ws))

PreferredVoice(name, priority) == [name |-> name, priority |-> priority]

preferredVoices ==
  << PreferredVoice(<< "Google", "US", "English" >>, 10),
     PreferredVoice(<< "Google", "UK", "English", "Female" >>, 9),
     PreferredVoice(<< "Google", "UK", "English", "Male" >>, 8),
     PreferredVoice(<< "Microsoft", "Zira", "Desktop" >>, 7),
     PreferredVoice(<< "Microsoft", "David", "Desktop" >>, 6),
     PreferredVoice(<< "Microsoft", "Hazel", "Desktop" >>, 7),
     PreferredVoice(<< "Microsoft", "Mark", "Desktop" >>, 6),
     PreferredVoice(<< "Samantha" >>, 9),
     PreferredVoice(<< "Alex" >>, 8),
     PreferredVoice(<< "Victoria" >>, 7),
     PreferredVoice(<< "Karen" >>, 6),
     PreferredVoice(<< "Moira" >>, 5),
     PreferredVoice(<< "Fiona" >>, 6),
     PreferredVoice(<< "Daniel" >>, 5),
     PreferredVoice(<< "Tessa" >>, 5),
     PreferredVoice(<< "Veena" >>, 4),
     PreferredVoice(<< "Rishi" >>, 4) >>

QualityIndicator(pattern, priority) == [pattern |-> pattern, priority |-> priority]

qualityIndicators ==
  << QualityIndicator(<< "google" >>, 8),
     QualityIndicator(<< "microsoft", "premium" >>, 7),
     QualityIndicator(<< "microsoft" >>, 6),
     QualityIndicator(<< "apple" >>, 6),
     QualityIndicator(<< "enhanced" >>, 5),
     QualityIndicator(<< "natural" >>, 5),
     QualityIndicator(<< "neural" >>, 7) >>

\* voice.lang.toLowerCase().startsWith('en')
IsEnglish(voice) == voice.lang # <<>> /\ Lower(voice.lang[1]) = "en"

\* Least index of a non-empty set of indices, 0 for the empty set
FirstIndex(ks) == IF ks = {} THEN 0 ELSE CHOOSE k \in ks : \A j \in ks : k <= j

\* preferredVoices.find(pv => voice.name.toLowerCase().includes(pv.name.toLowerCase())):
\* index of the entry found, 0 if none
PreferredMatch(voice) ==
  FirstIndex({ k \in 1..Len(preferredVoices) :
                 Includes(LowerCase(voice.name), LowerCase(preferredVoices[k].name)) })

\* The loop over qualityIndicators: index of the first indicator whose pattern
\* matches with a priority above highestPriority, 0 if none
IndicatorMatch(voice, highestPriority) ==
  FirstIndex({ k \in 1..Len(qualityIndicators) :
                 /\ PatternTest(qualityIndicators[k].pattern, LowerCase(voice.name))
                 /\ qualityIndicators[k].priority > highestPriority })

\* The loop over this.voices with its two accumulators; the value is bestVoice.
RECURSIVE ScanVoices(_, _, _)
ScanVoices(vs, bestVoice, highestPriority) ==
  IF vs = <<>> THEN bestVoice
  ELSE LET voice == Head(vs)
           pv == PreferredMatch(voice)
           qi == IndicatorMatch(voice, highestPriority)
       IN IF ~IsEnglish(voice)
          THEN ScanVoices(Tail(vs), bestVoice, highestPriority)
          ELSE IF pv # 0 /\ preferredVoices[pv].priority > highestPriority
          THEN ScanVoices(Tail(vs), voice, preferredVoices[pv].priority)
          ELSE IF qi # 0
          THEN ScanVoices(Tail(vs), voice, qualityIndicators[qi].priority)
          ELSE ScanVoices(Tail(vs), bestVoice, highestPriority)

\* Array.prototype.find over the voices, NoVoice (undefined) if none is found
FindVoice(vs, found) ==
  IF found = {} THEN NoVoice ELSE vs[FirstIndex(found)]

FemaleEnglish(vs) ==
  { k \in 1..Len(vs) :
      /\ IsEnglish(vs[k])
      /\ \/ Includes(LowerCase(vs[k].name), << "female" >>)
         \/ Includes(LowerCase(vs[k].name), << "woman" >>) }

AnyEnglish(vs) == { k \in 1..Len(vs) : IsEnglish(vs[k]) }

\* SpeechService.selectOptimalVoice over the list this.voices
selectOptimalVoice(vs) ==
  IF Len(vs) = 0 THEN NoVoice
  ELSE LET bestVoice == ScanVoices(vs, NoVoice, 0)
       IN IF bestVoice # NoVoice THEN bestVoice
          ELSE IF FemaleEnglish(vs) # {} THEN FindVoice(vs, FemaleEnglish(vs))
          ELSE FindVoice(vs, AnyEnglish(vs))

(* ------------------- SpeechService: utterances ----------------------- *)
\* Rate, pitch and volume in hundredths; NotSupplied stands for a property
\* the options object does not have.
NotSupplied == -1
DefaultRate == 90
DefaultPitch == 100
DefaultVolume == 85

Options(rate, pitch, volume) == [rate |-> rate, pitch |-> pitch, volume |-> volume]
NoOptions == Options(NotSupplied, NotSupplied, NotSupplied)

\* The options a caller may pass: rates within 0.1..10, pitches within 0..2,
\* volumes within 0..1
CallerOptions ==
  { Options(r, p, v) : r \in {NotSupplied, 50}, p \in {NotSupplied, 0},
                       v \in {NotSupplied, 0, 50} }

\* supplied || default: undefined and 0 are falsy
OrDefault(supplied, default) ==
  IF supplied = NotSupplied \/ supplied = 0 THEN default ELSE supplied

NoUtterance == [none |-> TRUE]

\* The SpeechSynthesisUtterance speak builds
NewUtterance(voice, options) ==
  [ voice |-> voice,
    rate |-> OrDefault(options.rate, DefaultRate),
    pitch |-> OrDefault(options.pitch, DefaultPitch),
    volume |-> OrDefault(options.volume, DefaultVolume) ]

(* ------------------------------ state -------------------------------- *)
VARIABLES
  \* configuration and platform capability
  interactionMode,     \* config.interactionMode: "voice" | "text"
  recognition,         \* SpeechService.recognition is non-null
  \* React state of InterviewSession
  messages, currentInput, isListening, isSpeaking, isLoading,
  sessionStarted, timeElapsed, interviewId, isEndingInterview,
  timerRef,            \* timerRef.current holds a scheduled interval
  tickTimers,          \* number of setInterval timers that are scheduled
  \* async calls in flight
  pc,                  \* pc[0]: startInterview, pc[i]: i-th accepted handleSendMessage
  closureEnding,       \* isEndingInterview as captured by each of those calls
  endPc,               \* endInterview
  endClosure,          \* interviewId and messages captured by endInterview
  endFeedback,         \* feedback held by endInterview across the update
  endRequests,         \* generateFeedback calls and record updates issued so far
  \* results view
  navigated, storedFeedback, storedMessages,
  \* SpeechService and the platform objects behind it
  svcIsListening,      \* SpeechService.isListening
  recState,            \* platform recognition: idle | starting | active | stopping | errored
  \* closures of the startListening call whose handlers are installed on recognition
  ownerPending,        \* its promise is still pending
  ownerClosureEnding,  \* isEndingInterview as captured by the handler awaiting it
  ownerTimeout,        \* its timeoutId is scheduled
  finalTranscript, interimTranscript, nResults,
  \* closures of startListening calls whose handlers were replaced
  orphaned,            \* number of their promises that are still pending
  staleTimeouts,       \* number of their timeouts that are still scheduled
  lastStartOutcome,    \* how the latest SpeechService.startListening call ended
  synthOwner,          \* call whose utterance the platform synthesis is speaking
  synthWaiting,        \* calls whose utterances are queued behind it
  utterance,           \* the utterance the latest speak call built
  callOptions,         \* the options of that call
  voices,              \* SpeechService.voices
  selectedVoice,       \* SpeechService.selectedVoice
  cancelledUtts,       \* calls whose utterance was cancelled, event not delivered
  \* history
  nSubmit,             \* handleSendMessage calls made
  lastSendOutcome,     \* how the latest call ended: accepted or rejected, and why
  cycContent,          \* text each accepted call passed to processResponse
  cycReplied,          \* the call has appended an interviewer message
  cycReply,            \* the reply processResponse gave it
  feedbackFailed       \* generateFeedback was rejected

voiceVars == << voices, selectedVoice >>
\* What no handler of the page changes
cfgVars == << interactionMode, recognition, voiceVars >>
uiVars == << messages, currentInput, isListening, isSpeaking, isLoading,
             sessionStarted, timeElapsed, interviewId, isEndingInterview,
             timerRef,
                  tickTimers >>
procVars == << pc, closureEnding, endPc, endClosure, endFeedback,
              endRequests >>
resultVars == << navigated, storedFeedback, storedMessages >>
recVars == << svcIsListening, recState, ownerPending, ownerClosureEnding,
              ownerTimeout, finalTranscript, interimTranscript, nResults,
              orphaned, staleTimeouts, lastStartOutcome >>
synthVars == << synthOwner, synthWaiting, cancelledUtts, utterance, callOptions >>
histVars == << nSubmit, lastSendOutcome, cycContent, cycReplied, cycReply,
              feedbackFailed >>
vars == << cfgVars, uiVars, procVars, resultVars, recVars, synthVars, histVars >>

Phase ==
  IF ~sessionStarted THEN "NotStarted"
  ELSE IF ~isEndingInterview THEN "InProgress"
  ELSE IF ~navigated THEN "Ending"
  ELSE "Ended"

Init ==
  /\ interactionMode \in {"voice", "text"}
  /\ recognition \in BOOLEAN
  /\ messages = <<>>
  /\ currentInput = <<>>
  /\ isListening = FALSE
  /\ isSpeaking = FALSE
  /\ isLoading = FALSE
  /\ sessionStarted = FALSE
  /\ timeElapsed = 0
  /\ interviewId = NoId
  /\ isEndingInterview = FALSE
  /\ timerRef = FALSE
  /\ tickTimers = 0
  /\ pc = [p \in Procs |-> "idle"]
  /\ closureEnding = [p \in Procs |-> FALSE]
  /\ endPc = "idle"
  /\ endClosure = [interviewId |-> NoId, messages |-> <<>>]
  /\ endFeedback = NoReport
  /\ endRequests = [feedback |-> 0, update |-> 0]
  /\ navigated = FALSE
  /\ storedFeedback = NoReport
  /\ storedMessages = <<>>
  /\ svcIsListening = FALSE
  /\ recState = "idle"
  /\ ownerPending = FALSE
  /\ ownerClosureEnding = FALSE
  /\ ownerTimeout = FALSE
  /\ orphaned = 0
  /\ staleTimeouts = 0
  /\ lastStartOutcome = "none"
  /\ finalTranscript = <<>>
  /\ interimTranscript = <<>>
  /\ nResults = 0
  /\ synthOwner = NoProc
  /\ synthWaiting = <<>>
  /\ cancelledUtts = {}
  /\ utterance = NoUtterance
  /\ callOptions = NoOptions
  /\ voices = <<>>
  /\ selectedVoice = NoVoice
  /\ nSubmit = 0
  /\ lastSendOutcome = "none"
  /\ cycContent = [i \in Cycles |-> <<>>]
  /\ cycReplied = [i \in Cycles |-> FALSE]
  /\ cycReply = [i \in Cycles |-> <<>>]
  /\ feedbackFailed = FALSE

(* ------------------- SpeechService: synthesis ------------------------ *)
\* synthesis.cancel(): the utterance held by the platform is dropped; whether
\* the platform still delivers an end or error event for it is up to the platform.
CancelledAfterCancel ==
  cancelledUtts \cup (IF synthOwner = NoProc THEN {} ELSE {synthOwner})
                \cup { synthWaiting[k] : k \in 1..Len(synthWaiting) }

\* SpeechService.stopSpeaking
stopSpeaking ==
  /\ synthOwner' = NoProc
  /\ synthWaiting' = <<>>
  /\ cancelledUtts' = CancelledAfterCancel
  /\ UNCHANGED << utterance, callOptions >>

\* The utterance being spoken has ended or failed: the platform goes on with
\* the next one of its queue, if any.
SynthAdvance ==
  /\ synthOwner' = IF synthWaiting = <<>> THEN NoProc ELSE Head(synthWaiting)
  /\ synthWaiting' = IF synthWaiting = <<>> THEN <<>> ELSE Tail(synthWaiting)

\* Variant of SpeakResolvesAtOnce without the test for empty text.
SpeakNeverResolvesAtOnce(text) == FALSE

\* SpeechService.speak(text) called on behalf of p; empty text resolves at once.
SpeakResolvesAtOnce(text) == text = <<>>

\* Variant of speak without synthesis.cancel(): synthesis.speak(utterance)
\* queues the utterance behind the one being spoken.
speakWithoutCancel(p, text, options) ==
  IF SpeakResolvesAtOnce(text)
  THEN UNCHANGED synthVars
  ELSE /\ synthOwner' = IF synthOwner = NoProc THEN p ELSE synthOwner
       /\ synthWaiting' = IF synthOwner = NoProc THEN synthWaiting
                                                 ELSE Append(synthWaiting, p)
       /\ UNCHANGED cancelledUtts
       /\ utterance' = NewUtterance(selectedVoice, options)
       /\ callOptions' = options

\* SpeechService.speak(text, options) called by p: synthesis.cancel() empties
\* the platform's queue, synthesis.speak(utterance) then finds nothing in front
\* of the new utterance.
speak(p, text, options) ==
  IF SpeakResolvesAtOnce(text)
  THEN UNCHANGED synthVars
  ELSE /\ synthOwner' = p
       /\ synthWaiting' = <<>>
       /\ cancelledUtts' = CancelledAfterCancel
       /\ utterance' = NewUtterance(selectedVoice, options)
       /\ callOptions' = options

(* ------------------- SpeechService: recognition ---------------------- *)
\* SpeechService.stopListening: recognition.stop() only when the flag is set.
RecAfterStopListening ==
  IF recognition /\ svcIsListening /\ recState = "active" THEN "stopping" ELSE recState

\* SpeechService.isSpeechSupported ('speechSynthesis' in window holds: the
\* constructor reads window.speechSynthesis)
isSpeechSupported == recognition

(* ------------------- InterviewSession: helpers ----------------------- *)
\* Variant of cleanup that leaves the interval of startTimer scheduled.
cleanupKeepsTimer ==
  /\ UNCHANGED << timerRef, tickTimers >>
  /\ stopSpeaking
  /\ recState' = RecAfterStopListening
  /\ isSpeaking' = FALSE
  /\ isListening' = FALSE

\* cleanup (also the unmount effect of the component)
cleanup ==
  /\ timerRef' = FALSE
  /\ tickTimers' = IF timerRef THEN tickTimers - 1 ELSE tickTimers
  /\ stopSpeaking
  /\ recState' = RecAfterStopListening
  /\ isSpeaking' = FALSE
  /\ isListening' = FALSE

\* The "speak it if voice mode" block of startInterview and handleSendMessage,
\* followed by the outer finally when speak does not suspend on the platform.
SpeakBlock(p, text, doSpeak) ==
  IF doSpeak /\ ~SpeakResolvesAtOnce(text)
  THEN /\ isSpeaking' = TRUE
       /\ speak(p, text, NoOptions)
       /\ pc' = [pc EXCEPT ![p] = "awaitSpeak"]
       /\ UNCHANGED isLoading
  ELSE /\ isSpeaking' = IF doSpeak THEN FALSE ELSE isSpeaking
       /\ isLoading' = FALSE
       /\ pc' = [pc EXCEPT ![p] = "done"]
       /\ UNCHANGED synthVars

\* inner finally + outer finally once the awaited speak has settled
AfterSpeak(p, outcome) ==
  /\ isSpeaking' = FALSE
  /\ isLoading' = FALSE
  /\ pc' = [pc EXCEPT ![p] = outcome]

(* ------------------- startInterview ---------------------------------- *)
startInterview ==
  /\ isLoading' = TRUE
  /\ sessionStarted' = TRUE
  /\ timerRef' = TRUE
  /\ tickTimers' = tickTimers + 1
  /\ pc' = [pc EXCEPT ![StartProc] = "awaitCreate"]
  /\ closureEnding' = [closureEnding EXCEPT ![StartProc] = isEndingInterview]
  /\ UNCHANGED << messages, currentInput, isListening, isSpeaking, timeElapsed,
                  interviewId, isEndingInterview >>
  /\ UNCHANGED << endPc, endClosure, endFeedback,
                  endRequests >>
  /\ UNCHANGED << cfgVars, resultVars, recVars, synthVars, histVars >>

\* The Start button exists only while the session has not started.
StartClick ==
  /\ ~sessionStarted /\ ~navigated
  /\ startInterview

\* createInterviewRecord returns (an id, or null on any failure); setInterviewId,
\* then askFirstQuestion is called.
CreateRecordReturn(id) ==
  /\ pc[StartProc] = "awaitCreate"
  /\ interviewId' = id
  /\ pc' = [pc EXCEPT ![StartProc] = "awaitFirstQ"]
  /\ UNCHANGED << messages, currentInput, isListening, isSpeaking, isLoading,
                  sessionStarted, timeElapsed, isEndingInterview, timerRef,
                  tickTimers >>
  /\ UNCHANGED << closureEnding, endPc, endClosure, endFeedback,
                  endRequests >>
  /\ UNCHANGED << cfgVars, resultVars, recVars, synthVars, histVars >>

FirstQuestionReturn(q) ==
  /\ pc[StartProc] = "awaitFirstQ"
  /\ messages' = << AiMessage(q) >>
  /\ SpeakBlock(StartProc, q, interactionMode = "voice")
  /\ UNCHANGED << currentInput, isListening, sessionStarted, timeElapsed,
                  interviewId, isEndingInterview, timerRef,
                  tickTimers >>
  /\ UNCHANGED << closureEnding, endPc, endClosure, endFeedback,
                  endRequests >>
  /\ UNCHANGED << cfgVars, resultVars, recVars, histVars >>

\* Variant of FirstQuestionFail whose catch block takes the page back to the
\* start screen.
FirstQuestionFailBackToStart ==
  /\ pc[StartProc] = "awaitFirstQ"
  /\ isLoading' = FALSE
  /\ sessionStarted' = FALSE
  /\ pc' = [pc EXCEPT ![StartProc] = "failed"]
  /\ UNCHANGED << messages, currentInput, isListening, isSpeaking,
                  timeElapsed, interviewId, isEndingInterview, timerRef,
                  tickTimers >>
  /\ UNCHANGED << closureEnding, endPc, endClosure, endFeedback,
                  endRequests >>
  /\ UNCHANGED << cfgVars, resultVars, recVars, synthVars, histVars >>

\* askFirstQuestion rejected: the catch logs, the finally clears isLoading.
FirstQuestionFail ==
  /\ pc[StartProc] = "awaitFirstQ"
  /\ isLoading' = FALSE
  /\ pc' = [pc EXCEPT ![StartProc] = "failed"]
  /\ UNCHANGED << messages, currentInput, isListening, isSpeaking,
                  sessionStarted, timeElapsed, interviewId, isEndingInterview, timerRef,
                  tickTimers >>
  /\ UNCHANGED << closureEnding, endPc, endClosure, endFeedback,
                  endRequests >>
  /\ UNCHANGED << cfgVars, resultVars, recVars, synthVars, histVars >>

(* ------------------- handleSendMessage ------------------------------- *)
\* Variant of SubmittedText that keeps the surrounding whitespace.
SubmittedTextUntrimmed(content) == content

\* Variant of SendRejected without the isEndingInterview test.
SendRejectedBlankOnly(content) == Trim(content) = <<>>

\* content.trim(): the text of the candidate message and of the interviewer call
SubmittedText(content) == Trim(content)

\* if (!interviewer || !content.trim() || isEndingInterview) return
SendRejected(content) == Trim(content) = <<>> \/ isEndingInterview

handleSendMessage(content) ==
  /\ nSubmit < MaxSubmits
  /\ nSubmit' = nSubmit + 1
  /\ IF SendRejected(content)
     THEN /\ lastSendOutcome' = IF isEndingInterview THEN "rejectedEnding"
                                 ELSE "rejectedBlank"
          /\ UNCHANGED << messages, currentInput, isLoading, pc, closureEnding,
                          cycContent >>
     ELSE /\ messages' = Append(messages, UserMessage(SubmittedText(content)))
          /\ currentInput' = <<>>
          /\ isLoading' = TRUE
          /\ pc' = [pc EXCEPT ![nSubmit + 1] = "awaitProcess"]
          /\ closureEnding' = [closureEnding EXCEPT ![nSubmit + 1] = isEndingInterview]
          /\ cycContent' = [cycContent EXCEPT ![nSubmit + 1] = SubmittedText(content)]
          /\ lastSendOutcome' = "accepted"
  /\ UNCHANGED << isListening, isSpeaking, sessionStarted, timeElapsed,
                  interviewId, isEndingInterview, timerRef,
                  tickTimers >>
  /\ UNCHANGED << endPc, endClosure, endFeedback,
                  endRequests >>
  /\ UNCHANGED << cycReplied, cycReply, feedbackFailed >>
  /\ UNCHANGED << cfgVars, resultVars, recVars, synthVars >>

\* Variant of SendClick whose button is not disabled by isLoading.
SendClickWhileLoading ==
  /\ sessionStarted /\ ~navigated
  /\ Trim(currentInput) # <<>> /\ ~isEndingInterview
  /\ handleSendMessage(currentInput)

\* Send button: disabled={!currentInput.trim() || isLoading || isEndingInterview}
SendClick ==
  /\ sessionStarted /\ ~navigated
  /\ Trim(currentInput) # <<>> /\ ~isLoading /\ ~isEndingInterview
  /\ handleSendMessage(currentInput)

\* handleKeyDown in text mode (the initial inputMode): Enter submits;
\* textarea disabled={isLoading || isEndingInterview}
EnterKey ==
  /\ sessionStarted /\ ~navigated
  /\ ~isLoading /\ ~isEndingInterview
  /\ handleSendMessage(currentInput)

\* textarea onChange
TypeInput(text) ==
  /\ sessionStarted /\ ~navigated
  /\ ~isLoading /\ ~isEndingInterview
  /\ text # currentInput
  /\ currentInput' = text
  /\ UNCHANGED << messages, isListening, isSpeaking, isLoading, sessionStarted,
                  timeElapsed, interviewId, isEndingInterview, timerRef,
                  tickTimers >>
  /\ UNCHANGED << cfgVars, procVars, resultVars, recVars, synthVars, histVars >>

\* The reply is spoken when voice mode is on and the isEndingInterview the call
\* captured is false.
ReplyIsSpoken(i) == interactionMode = "voice" /\ ~closureEnding[i]

\* Variant of ProcessResponseReturn that shows the reply alone, as
\* startInterview shows the opening question.
ProcessResponseReturnReplaces(i, r) ==
  /\ pc[i] = "awaitProcess"
  /\ messages' = << AiMessage(r) >>
  /\ cycReplied' = [cycReplied EXCEPT ![i] = TRUE]
  /\ cycReply' = [cycReply EXCEPT ![i] = r]
  /\ SpeakBlock(i, r, ReplyIsSpoken(i))
  /\ UNCHANGED << currentInput, isListening, sessionStarted, timeElapsed,
                  interviewId, isEndingInterview, timerRef,
                  tickTimers >>
  /\ UNCHANGED << closureEnding, endPc, endClosure, endFeedback,
                  endRequests >>
  /\ UNCHANGED << nSubmit, lastSendOutcome, cycContent, feedbackFailed >>
  /\ UNCHANGED << cfgVars, resultVars, recVars >>

\* processResponse resolved: the reply is appended and, in voice mode, spoken.
ProcessResponseReturn(i, r) ==
  /\ pc[i] = "awaitProcess"
  /\ messages' = Append(messages, AiMessage(r))
  /\ cycReplied' = [cycReplied EXCEPT ![i] = TRUE]
  /\ cycReply' = [cycReply EXCEPT ![i] = r]
  /\ SpeakBlock(i, r, ReplyIsSpoken(i))
  /\ UNCHANGED << currentInput, isListening, sessionStarted, timeElapsed,
                  interviewId, isEndingInterview, timerRef,
                  tickTimers >>
  /\ UNCHANGED << closureEnding, endPc, endClosure, endFeedback,
                  endRequests >>
  /\ UNCHANGED << nSubmit, lastSendOutcome, cycContent, feedbackFailed >>
  /\ UNCHANGED << cfgVars, resultVars, recVars >>

\* Variant of ProcessResponseFail that rolls the candidate message back.
ProcessResponseFailRollback(i) ==
  /\ pc[i] = "awaitProcess"
  /\ messages' = SubSeq(messages, 1, Len(messages) - 1)
  /\ isLoading' = FALSE
  /\ pc' = [pc EXCEPT ![i] = "callFailed"]
  /\ UNCHANGED << currentInput, isListening, isSpeaking,
                  sessionStarted, timeElapsed, interviewId, isEndingInterview, timerRef,
                  tickTimers >>
  /\ UNCHANGED << closureEnding, endPc, endClosure, endFeedback,
                  endRequests >>
  /\ UNCHANGED << cfgVars, resultVars, recVars, synthVars, histVars >>

\* processResponse rejected: the outer catch logs, the outer finally clears isLoading.
ProcessResponseFail(i) ==
  /\ pc[i] = "awaitProcess"
  /\ isLoading' = FALSE
  /\ pc' = [pc EXCEPT ![i] = "callFailed"]
  /\ UNCHANGED << messages, currentInput, isListening, isSpeaking,
                  sessionStarted, timeElapsed, interviewId, isEndingInterview, timerRef,
                  tickTimers >>
  /\ UNCHANGED << closureEnding, endPc, endClosure, endFeedback,
                  endRequests >>
  /\ UNCHANGED << cfgVars, resultVars, recVars, synthVars, histVars >>

(* ------------------- utterance events -------------------------------- *)
SpeechFrame ==
  /\ UNCHANGED << messages, currentInput, isListening, sessionStarted, timeElapsed,
                  interviewId, isEndingInterview, timerRef,
                  tickTimers >>
  /\ UNCHANGED << closureEnding, endPc, endClosure, endFeedback,
                  endRequests >>
  /\ UNCHANGED << cfgVars, resultVars, recVars, histVars >>

\* utterance.onend: resolve()
SpeechOnEnd(p) ==
  /\ synthOwner = p
  /\ SynthAdvance
  /\ UNCHANGED << cancelledUtts, utterance, callOptions >>
  /\ AfterSpeak(p, "done")
  /\ SpeechFrame

\* utterance.onerror: reject(error), caught and logged by the caller
SpeechOnError(p) ==
  /\ synthOwner = p
  /\ SynthAdvance
  /\ UNCHANGED << cancelledUtts, utterance, callOptions >>
  /\ AfterSpeak(p, "speakFailed")
  /\ SpeechFrame

\* The platform delivers an event for an utterance that cancel() dropped.
CancelledUtteranceEvent(p, outcome) ==
  /\ p \in cancelledUtts
  /\ cancelledUtts' = cancelledUtts \ {p}
  /\ UNCHANGED << synthOwner, synthWaiting, utterance, callOptions >>
  /\ AfterSpeak(p, outcome)
  /\ SpeechFrame

(* ------------------- calls on the service from elsewhere ------------- *)
\* Frame of a step of the service that no handler of the page is part of
ServiceFrame ==
  UNCHANGED << interactionMode, recognition, uiVars, procVars, resultVars,
               recVars, histVars >>

\* loadVoices: synthesis.onvoiceschanged and the timeout of
\* initializeOptimalVoice, with the list getVoices() returns at that time
loadVoices(list) ==
  /\ voices' = list
  /\ selectedVoice' = selectOptimalVoice(list)
  /\ UNCHANGED synthVars
  /\ ServiceFrame

\* speechService.speak(text, options) called by a caller that passes options
ClientSpeak(text, options) ==
  /\ speak(Client, text, options)
  /\ UNCHANGED voiceVars
  /\ ServiceFrame

\* utterance.onend / onerror of that caller's utterance
ClientUtteranceSettles ==
  /\ synthOwner = Client
  /\ SynthAdvance
  /\ UNCHANGED << cancelledUtts, utterance, callOptions >>
  /\ UNCHANGED voiceVars
  /\ ServiceFrame

\* The platform delivers an event for that caller's utterance after cancel()
\* dropped it.
ClientCancelledEvent ==
  /\ Client \in cancelledUtts
  /\ cancelledUtts' = cancelledUtts \ {Client}
  /\ UNCHANGED << synthOwner, synthWaiting, utterance, callOptions >>
  /\ UNCHANGED voiceVars
  /\ ServiceFrame

\* toggleSpeaking: the button is disabled={isEndingInterview}
toggleSpeaking ==
  /\ interactionMode = "voice"
  /\ sessionStarted /\ ~navigated /\ ~isEndingInterview
  /\ isSpeaking
  /\ stopSpeaking
  /\ isSpeaking' = FALSE
  /\ UNCHANGED << messages, currentInput, isListening, isLoading, sessionStarted,
                  timeElapsed, interviewId, isEndingInterview, timerRef,
                  tickTimers >>
  /\ UNCHANGED << cfgVars, procVars, resultVars, recVars, histVars >>

\* setInterval callback of startTimer
Tick ==
  /\ tickTimers > 0
  /\ timeElapsed < MaxTime
  /\ timeElapsed' = timeElapsed + 1
  /\ UNCHANGED << messages, currentInput, isListening, isSpeaking, isLoading,
                  sessionStarted, interviewId, isEndingInterview, timerRef,
                  tickTimers >>
  /\ UNCHANGED << cfgVars, procVars, resultVars, recVars, synthVars, histVars >>

(* ------------------- endInterview ------------------------------------ *)
endInterview ==
  /\ isEndingInterview' = TRUE
  /\ cleanup
  /\ endPc' = "awaitFeedback"
  /\ endClosure' = [interviewId |-> interviewId, messages |-> messages]
  /\ endRequests' = [endRequests EXCEPT !.feedback = @ + 1]
  /\ UNCHANGED << messages, currentInput, isLoading, sessionStarted, timeElapsed,
                  interviewId >>
  /\ UNCHANGED << pc, closureEnding, endFeedback >>
  /\ UNCHANGED << svcIsListening, ownerPending, ownerClosureEnding, ownerTimeout,
                  finalTranscript, interimTranscript, nResults, orphaned,
                  staleTimeouts, lastStartOutcome >>
  /\ UNCHANGED << cfgVars, resultVars, histVars >>

\* Variant of EndClick: an End button that stays enabled while the interview
\* is ending, over an endInterview without its isEndingInterview test.
EndClickWhileEnding ==
  /\ sessionStarted /\ ~navigated
  /\ endInterview

\* End button: rendered once sessionStarted, disabled={isEndingInterview};
\* endInterview returns at once if isEndingInterview.
EndClick ==
  /\ sessionStarted /\ ~navigated /\ ~isEndingInterview
  /\ endInterview

\* sessionStorage.setItem(feedback, messages); navigate('/interview/results');
\* the component unmounts and its effect cleanup runs.
StoreAndNavigate(report) ==
  /\ storedFeedback' = report
  /\ storedMessages' = endClosure.messages
  /\ navigated' = TRUE
  /\ endPc' = "done"
  /\ cleanup
  /\ UNCHANGED << messages, currentInput, isLoading, sessionStarted, timeElapsed,
                  interviewId, isEndingInterview >>
  /\ UNCHANGED << pc, closureEnding, endClosure, endRequests >>
  /\ UNCHANGED << svcIsListening, ownerPending, ownerClosureEnding, ownerTimeout,
                  finalTranscript, interimTranscript, nResults, orphaned,
                  staleTimeouts, lastStartOutcome >>
  /\ UNCHANGED << cfgVars, nSubmit, lastSendOutcome, cycContent, cycReplied,
                  cycReply >>

\* generateFeedback resolved: update the record if the captured interviewId is set.
GenerateFeedbackReturn(f) ==
  /\ endPc = "awaitFeedback"
  /\ IF endClosure.interviewId # NoId
     THEN /\ endPc' = "awaitUpdate"
          /\ endFeedback' = f
          /\ endRequests' = [endRequests EXCEPT !.update = @ + 1]
          /\ UNCHANGED << uiVars, pc, closureEnding, endClosure,
                          resultVars, recVars, synthVars, cfgVars, histVars >>
     ELSE /\ StoreAndNavigate(f)
          /\ UNCHANGED << endFeedback, feedbackFailed >>

\* Variant of GenerateFeedbackFail whose catch block stores nothing and does
\* not navigate.
GenerateFeedbackFailNoFallback ==
  /\ endPc = "awaitFeedback"
  /\ endPc' = "failed"
  /\ feedbackFailed' = TRUE
  /\ UNCHANGED << uiVars, pc, closureEnding, endClosure, endFeedback,
                  endRequests, resultVars,
                  recVars, synthVars, cfgVars, nSubmit, lastSendOutcome, cycContent,
                  cycReplied,
                  cycReply >>

\* generateFeedback rejected: the catch block substitutes basicFeedback.
GenerateFeedbackFail ==
  /\ endPc = "awaitFeedback"
  /\ StoreAndNavigate(basicFeedback)
  /\ feedbackFailed' = TRUE
  /\ UNCHANGED endFeedback

\* supabase update settled: "ok" or "error" (an error object, logged) or "throw".
UpdateOutcomes == {"ok", "error", "throw"}

UpdateReturn(outcome) ==
  /\ endPc = "awaitUpdate"
  /\ StoreAndNavigate(IF outcome = "throw" THEN basicFeedback ELSE endFeedback)
  /\ UNCHANGED << endFeedback, feedbackFailed >>

(* ------------------- listening --------------------------------------- *)
\* Frame of the recognition events and listen handlers, which touch only
\* recVars, isListening and currentInput.
ListenFrame ==
  /\ UNCHANGED << messages, isSpeaking, isLoading, sessionStarted, timeElapsed,
                  interviewId, isEndingInterview, timerRef,
                  tickTimers >>
  /\ UNCHANGED << cfgVars, procVars, resultVars, synthVars, histVars >>

\* recognition.start() throws InvalidStateError while a recognition it started
\* has not ended.
StartThrows == recState # "idle"

\* Variant of SvcStartListening without the test for a missing recognition
\* object: the call goes on to start a recognition.
SvcStartListeningNoCapabilityTest ==
  /\ lastStartOutcome' = "started"
  /\ recState' = "starting"
  /\ ownerPending' = TRUE
  /\ ownerClosureEnding' = isEndingInterview
  /\ UNCHANGED << svcIsListening, ownerTimeout, finalTranscript, interimTranscript,
                  nResults, orphaned, staleTimeouts >>

\* SpeechService.startListening: what the call does to the service.
\* Assigning the four handlers replaces the closures of the previous call.
SvcStartListening ==
  IF ~recognition
  THEN /\ lastStartOutcome' = "rejectedUnsupported"
       /\ UNCHANGED << svcIsListening, recState, ownerPending, ownerClosureEnding,
                       ownerTimeout, finalTranscript, interimTranscript, nResults,
                       orphaned, staleTimeouts >>
  ELSE IF svcIsListening
  THEN /\ lastStartOutcome' = "rejectedAlready"
       /\ UNCHANGED << svcIsListening, recState, ownerPending, ownerClosureEnding,
                       ownerTimeout, finalTranscript, interimTranscript, nResults,
                       orphaned, staleTimeouts >>
  ELSE /\ ownerPending => orphaned < MaxOrphans
       /\ orphaned' = IF ownerPending THEN orphaned + 1 ELSE orphaned
       /\ staleTimeouts' = IF ownerTimeout THEN staleTimeouts + 1 ELSE staleTimeouts
       /\ ownerTimeout' = FALSE
       /\ finalTranscript' = <<>>
       /\ interimTranscript' = <<>>
       /\ ownerClosureEnding' = isEndingInterview
       /\ IF StartThrows
          THEN \* catch block
               /\ svcIsListening' = FALSE
               /\ ownerPending' = FALSE
               /\ lastStartOutcome' = "rejectedThrow"
               /\ UNCHANGED << recState, nResults >>
          ELSE \* recognition.start()
               /\ recState' = "starting"
               /\ nResults' = 0
               /\ ownerPending' = TRUE
               /\ lastStartOutcome' = "started"
               /\ UNCHANGED svcIsListening

\* startListening of the component
startListening ==
  IF ~isSpeechSupported \/ isEndingInterview
  THEN \* alert, return
       UNCHANGED vars
  ELSE /\ SvcStartListening
       \* setIsListening(true); a rejection runs the finally at once
       /\ isListening' = (lastStartOutcome' = "started")
       /\ UNCHANGED currentInput
       /\ ListenFrame

\* stopListening of the component
stopListening ==
  /\ recState' = RecAfterStopListening
  /\ isListening' = FALSE
  /\ UNCHANGED << svcIsListening, ownerPending, ownerClosureEnding, ownerTimeout,
                  finalTranscript, interimTranscript, nResults, orphaned,
                  staleTimeouts, lastStartOutcome >>
  /\ UNCHANGED currentInput
  /\ ListenFrame

\* Mic button: voice mode only, disabled={isLoading || isSpeaking || isEndingInterview},
\* onClick={isListening ? stopListening : startListening}
MicEnabled ==
  /\ interactionMode = "voice"
  /\ sessionStarted /\ ~navigated
  /\ ~isLoading /\ ~isSpeaking /\ ~isEndingInterview

MicClickStart == MicEnabled /\ ~isListening /\ startListening

MicClickStop == MicEnabled /\ isListening /\ stopListening

\* recognition.onstart
RecOnStart ==
  /\ recState = "starting"
  /\ recState' = "active"
  /\ svcIsListening' = TRUE
  /\ ownerTimeout' = TRUE
  /\ UNCHANGED << ownerPending, ownerClosureEnding, finalTranscript,
                  interimTranscript, nResults, orphaned, staleTimeouts,
                  lastStartOutcome >>
  /\ UNCHANGED << currentInput, isListening >>
  /\ ListenFrame

\* One entry of event.results: the transcript of its first alternative and isFinal
Result(isFinal, transcript) == [isFinal |-> isFinal, transcript |-> transcript]

\* event.results from event.resultIndex on, as one onresult event delivers them:
\* one result, final or interim, or a final result of whitespace (a segment in
\* which nothing was understood) followed by an interim one.
ResultEvents ==
  { << Result(isFinal, t) >> : isFinal \in BOOLEAN, t \in Fragments }
    \cup { << Result(TRUE, << " " >>), Result(FALSE, t) >> : t \in Fragments }

\* The for loop of onresult: the transcripts of the results whose isFinal is
\* the given flag, concatenated in order.
RECURSIVE Transcripts(_, _)
Transcripts(results, isFinal) ==
  IF results = <<>> THEN <<>>
  ELSE (IF Head(results).isFinal = isFinal THEN Head(results).transcript ELSE <<>>)
         \o Transcripts(Tail(results), isFinal)

\* recognition.onresult
RecOnResult(results) ==
  /\ recState \in {"active", "stopping"}
  /\ nResults < MaxResults
  /\ nResults' = nResults + 1
  /\ finalTranscript' = finalTranscript \o Transcripts(results, TRUE)
  /\ interimTranscript' = Transcripts(results, FALSE)
  /\ UNCHANGED << svcIsListening, recState, ownerPending, ownerClosureEnding,
                  ownerTimeout, orphaned, staleTimeouts, lastStartOutcome >>
  /\ UNCHANGED << currentInput, isListening >>
  /\ ListenFrame

\* What onend resolves with
ListenResult ==
  IF Trim(finalTranscript) # <<>> THEN Trim(finalTranscript) ELSE Trim(interimTranscript)

\* Variant of RecOnEnd whose handler does not clear its timeout.
RecOnEndKeepsTimeout ==
  /\ recState \in {"active", "stopping", "errored"}
  /\ recState' = "idle"
  /\ svcIsListening' = FALSE
  /\ UNCHANGED ownerTimeout
  /\ ownerPending' = FALSE
  /\ IF ownerPending
     THEN /\ currentInput' = IF ownerClosureEnding THEN currentInput ELSE ListenResult
          /\ isListening' = FALSE
     ELSE UNCHANGED << currentInput, isListening >>
  /\ UNCHANGED << ownerClosureEnding, finalTranscript, interimTranscript, nResults,
                  orphaned, staleTimeouts, lastStartOutcome >>
  /\ ListenFrame

\* recognition.onend: the installed handler clears the flag and its timeout and
\* resolves its promise; the awaiting handler then copies the transcript.
RecOnEnd ==
  /\ recState \in {"active", "stopping", "errored"}
  /\ recState' = "idle"
  /\ svcIsListening' = FALSE
  /\ ownerTimeout' = FALSE
  /\ ownerPending' = FALSE
  /\ IF ownerPending
     THEN /\ currentInput' = IF ownerClosureEnding THEN currentInput ELSE ListenResult
          /\ isListening' = FALSE
     ELSE UNCHANGED << currentInput, isListening >>
  /\ UNCHANGED << ownerClosureEnding, finalTranscript, interimTranscript, nResults,
                  orphaned, staleTimeouts, lastStartOutcome >>
  /\ ListenFrame

\* Variant of RecOnError whose handler leaves SpeechService.isListening as it is.
RecOnErrorKeepsFlag ==
  /\ recState \in {"starting", "active", "stopping"}
  /\ recState' = "errored"
  /\ ownerTimeout' = FALSE
  /\ ownerPending' = FALSE
  /\ isListening' = IF ownerPending THEN FALSE ELSE isListening
  /\ UNCHANGED << svcIsListening, ownerClosureEnding, finalTranscript,
                  interimTranscript, nResults, orphaned, staleTimeouts,
                  lastStartOutcome >>
  /\ UNCHANGED currentInput
  /\ ListenFrame

\* recognition.onerror: the installed handler clears the flag and its timeout and
\* rejects its promise; the awaiting handler runs its catch and finally.
RecOnError ==
  /\ recState \in {"starting", "active", "stopping"}
  /\ recState' = "errored"
  /\ svcIsListening' = FALSE
  /\ ownerTimeout' = FALSE
  /\ ownerPending' = FALSE
  /\ isListening' = IF ownerPending THEN FALSE ELSE isListening
  /\ UNCHANGED << ownerClosureEnding, finalTranscript, interimTranscript, nResults,
                  orphaned, staleTimeouts, lastStartOutcome >>
  /\ UNCHANGED currentInput
  /\ ListenFrame

\* A 30 s timeout set by onstart fires: this.stopListening()
ListenTimeout ==
  /\ \E own \in BOOLEAN :
       /\ IF own THEN ownerTimeout ELSE staleTimeouts > 0
       /\ ownerTimeout' = IF own THEN FALSE ELSE ownerTimeout
       /\ staleTimeouts' = IF own THEN staleTimeouts ELSE staleTimeouts - 1
  /\ recState' = RecAfterStopListening
  /\ UNCHANGED << svcIsListening, ownerPending, ownerClosureEnding,
                  finalTranscript, interimTranscript, nResults, orphaned,
                  lastStartOutcome >>
  /\ UNCHANGED << currentInput, isListening >>
  /\ ListenFrame

(* ------------------- specification ----------------------------------- *)
StartStep ==
  \/ StartClick
  \/ \E id \in {NoId, RecordId} : CreateRecordReturn(id)
  \/ \E q \in Replies : FirstQuestionReturn(q)
  \/ FirstQuestionFail

TurnStep ==
  \/ SendClick
  \/ EnterKey
  \/ \E text \in Inputs : TypeInput(text)
  \/ \E i \in Cycles, r \in Replies : ProcessResponseReturn(i, r)
  \/ \E i \in Cycles : ProcessResponseFail(i)

SpeechStep ==
  \/ \E p \in Procs : SpeechOnEnd(p)
  \/ \E p \in Procs : SpeechOnError(p)
  \/ \E p \in Procs, o \in {"done", "speakFailed"} : CancelledUtteranceEvent(p, o)
  \/ toggleSpeaking

EndStep ==
  \/ EndClick
  \/ GenerateFeedbackReturn(GeneratedFeedback)
  \/ GenerateFeedbackFail
  \/ \E o \in UpdateOutcomes : UpdateReturn(o)

\* the microphone button and the recognition events
ListenStep ==
  \/ MicClickStart
  \/ MicClickStop
  \/ RecOnStart
  \/ \E results \in ResultEvents : RecOnResult(results)
  \/ RecOnEnd
  \/ RecOnError
  \/ ListenTimeout

\* start-up, typed turn cycles, utterance events and the end flow
EngineStep == StartStep \/ TurnStep \/ SpeechStep \/ EndStep

Next == EngineStep \/ ListenStep \/ Tick

\* The session as the rendered controls allow it to be driven.
Spec == Init /\ [][Next]_vars

\* Sessions in which the microphone is not used and the clock is not observed.
TypedSpec == Init /\ [][EngineStep]_vars

\* Sessions in which nothing is typed or sent: start-up, listening, the end flow.
ListenSpec == Init /\ [][StartStep \/ SpeechStep \/ EndStep \/ ListenStep]_vars

\* handleSendMessage called with the input field's text, as its callers do,
\* whatever the state of the controls that normally call it.
DirectSend == handleSendMessage(currentInput)

DirectSpec == Init /\ [][EngineStep \/ DirectSend]_vars

\* handleSendMessage called with any text while earlier calls are still in
\* flight: the callers of SpeechService.speak then overlap, which the controls
\* of the page never let happen (they are disabled while isLoading).
OverlappingSend == \E content \in Inputs : handleSendMessage(content)

\* processResponse settles for some cycle in flight
ReplyStep ==
  \/ \E i \in Cycles, r \in Replies : ProcessResponseReturn(i, r)
  \/ \E i \in Cycles : ProcessResponseFail(i)

\* Sessions in progress whose speak calls overlap: start-up, direct sends,
\* replies, the synthesis events and the speaker button.
OverlapSpec == Init /\ [][StartStep \/ OverlappingSend \/ ReplyStep \/ SpeechStep]_vars

\* SpeechService.startListening called by some other caller than the mic button,
\* on a platform without recognition (the call settles at once, so no
\* continuation of the caller is involved).
ServiceStartListeningUnsupported ==
  /\ ~recognition
  /\ SvcStartListening
  /\ UNCHANGED << currentInput, isListening >>
  /\ ListenFrame

\* Sessions on a platform without speech recognition. The recognition events
\* need a recognition object and the stop click needs a listening operation,
\* so neither can occur.
UnsupportedInit == Init /\ ~recognition

UnsupportedSpec ==
  /\ UnsupportedInit
  /\ [][EngineStep \/ MicClickStart \/ ServiceStartListeningUnsupported]_vars

\* The interviewer's generateFeedback and the record update each return or fail.
EndFairSpec ==
  /\ TypedSpec
  /\ WF_vars(GenerateFeedbackReturn(GeneratedFeedback) \/ GenerateFeedbackFail)
  /\ WF_vars(\E o \in UpdateOutcomes : UpdateReturn(o))

\* The service on its own, voice selection: the platform's voice list is
\* loaded and changes.
VoiceStep == \E list \in VoiceLists : loadVoices(list)

VoiceSpec == Init /\ [][VoiceStep]_vars

\* The service on its own, synthesis: a caller speaks with options of its choice.
UtteranceStep ==
  \/ \E text \in Replies, options \in CallerOptions : ClientSpeak(text, options)
  \/ ClientUtteranceSettles
  \/ ClientCancelledEvent

UtteranceSpec == Init /\ [][UtteranceStep]_vars

\* Typed sessions with the elapsed-time timer.
TimedSpec == Init /\ [][EngineStep \/ Tick]_vars

\* Sessions with every action of the candidate - start, typing and sending,
\* listening and stopping, the speaker button, end - and every event of the
\* platform and the collaborators; the clock is not observed.
UntimedSpec == Init /\ [][EngineStep \/ ListenStep]_vars

\* The platform finishes the utterance it is speaking: it ends or fails.
\* Whether it reports an utterance that cancel() dropped is left open.
UtteranceFinishes == \E p \in Procs : SpeechOnEnd(p) \/ SpeechOnError(p)

SpeakFairSpec == OverlapSpec /\ WF_vars(UtteranceFinishes)

\* Sessions driven through the controls in which the platform ends or fails
\* the utterance it is speaking.
StopFairSpec == TypedSpec /\ WF_vars(UtteranceFinishes)

\* recognition.onend of a recognition that was stopped or has failed
RecEndsAfterStop == recState \in {"stopping", "errored"} /\ RecOnEnd

\* The platform starts a recognition that was asked to start, ends one that
\* was stopped or has failed, and fires every scheduled timeout.
ListenFairSpec ==
  /\ ListenSpec
  /\ WF_vars(RecOnStart)
  /\ WF_vars(RecEndsAfterStop)
  /\ WF_vars(ListenTimeout)

(* ------------------- properties --------------------------------------- *)
\* handleSendMessage calls that got past the guard
Accepted == { i \in Cycles : pc[i] # "idle" }

\* C1: a submission that is not blank after trimming, made while the session is
\* in progress, appends exactly one candidate message holding the trimmed text;
\* when its processResponse call succeeds, exactly one interviewer message
\* holding the reply is appended right after that candidate message; neither
\* step changes the phase; and a session that started successfully holds
\* exactly the opening question, the answer and the reply after its first
\* successful submission.
C1_TurnCycleAppendsAnswerThenReply ==
  /\ [][ ( /\ nSubmit' = nSubmit + 1
           /\ Trim(currentInput) # <<>>
           /\ Phase = "InProgress" )
         => ( /\ messages' = Append(messages, UserMessage(Trim(currentInput)))
              /\ Phase' = "InProgress" ) ]_vars
  /\ [][ \A i \in Cycles :
           (cycReplied'[i] /\ ~cycReplied[i])
           => ( /\ messages[Len(messages)] = UserMessage(cycContent[i])
                /\ messages' = Append(messages, AiMessage(cycReply'[i]))
                /\ Phase' = Phase ) ]_vars
  /\ [] ( ( /\ pc[StartProc] = "done"
            /\ Cardinality(Accepted) = 1
            /\ \A i \in Accepted : cycReplied[i] )
          => \A i \in Accepted :
               /\ Len(messages) = 3
               /\ messages[1].type = "ai"
               /\ messages[2] = UserMessage(cycContent[i])
               /\ messages[3] = AiMessage(cycReply[i]) )

\* A text-mode session, started successfully, in progress, whose first
\* submission " a" was answered with "q".
C1_Witness ==
  /\ interactionMode = "text"
  /\ Phase = "InProgress"
  /\ pc[StartProc] = "done"
  /\ pc[1] = "done"
  /\ Len(messages) = 3
  /\ messages[2] = UserMessage(<<"a">>)
  /\ messages[3] = AiMessage(<<"q">>)

\* C2: once the end action has been taken no utterance is held by the speech
\* synthesis, whatever call was awaiting the interviewer at that moment.
C2_NoSynthesisOnceEnding == isEndingInterview => synthOwner = NoProc

\* C3: speech synthesis and speech recognition are never both active.
C3_SynthesisAndRecognitionExclusive ==
  ~ (synthOwner # NoProc /\ recState \in {"starting", "active", "stopping"})

\* C4: a startListening call made while an earlier call's operation has not
\* ended is rejected as already listening and leaves that operation untouched:
\* its handlers and their closures, the listening flag and its pending promise.
C4_SecondStartRejectedUntouched ==
  [][ (MicClickStart /\ ownerPending)
      => ( /\ lastStartOutcome' = "rejectedAlready"
           /\ UNCHANGED << svcIsListening, recState, ownerPending,
                           ownerClosureEnding, ownerTimeout, finalTranscript,
                           interimTranscript, nResults, orphaned,
                           staleTimeouts >> ) ]_vars

\* C5: SpeechService.isListening is true only between the platform's start
\* event and the end of that operation; whenever no operation is running,
\* because none was started, it ended, it failed or its start call threw,
\* the flag is false.
C5_FlagOnlyWhileOperationRuns ==
  /\ svcIsListening => recState \in {"active", "stopping"}
  /\ recState \in {"idle", "starting", "errored"} => ~svcIsListening

\* An operation that received a result has ended and the flag is clear.
C5_Witness ==
  /\ recState = "idle"
  /\ nResults > 0
  /\ lastStartOutcome = "started"
  /\ ~ownerPending
  /\ ~svcIsListening

\* C6: every startListening call eventually settles.
C6_EveryListenSettles ==
  (ownerPending \/ orphaned > 0) ~> (~ownerPending /\ orphaned = 0)

\* A report has an overall score and the four sub-scores in 0..100, a feedback
\* text and a list of recommendations.
SubScores == {"communication", "technical", "problemSolving", "confidence"}

WellFormedReport(r) ==
  /\ DOMAIN r = {"overallScore", "breakdown", "feedback", "recommendations"}
  /\ r.overallScore \in 0..100
  /\ SubScores \subseteq DOMAIN r.breakdown
  /\ \A k \in SubScores : r.breakdown[k] \in 0..100
  /\ r.feedback # ""
  /\ DOMAIN r.recommendations = 1..Len(r.recommendations)

\* C7: when generateFeedback fails, the report handed to the results view is a
\* well-formed report.
C7_FallbackReportWellFormed ==
  (feedbackFailed /\ navigated) => WellFormedReport(storedFeedback)

\* C8: after the end action the session reaches Ended: a report is stored and
\* the results view is shown.
C8_EndReachesResults ==
  isEndingInterview ~> (navigated /\ storedFeedback # NoReport)

\* The session ended although generateFeedback failed.
C8_Witness == navigated /\ feedbackFailed /\ storedFeedback = basicFeedback

\* A turn cycle has failed
CycleFailed(i) == pc[i] \in {"callFailed", "speakFailed"}

\* C9 as stated: after a failed interviewer call or reply step the candidate
\* message is in the transcript and no interviewer message was appended for it.
C9_NoReplyAfterFailure ==
  \A i \in Cycles :
    CycleFailed(i) =>
      /\ \E k \in 1..Len(messages) : messages[k] = UserMessage(cycContent[i])
      /\ ~cycReplied[i]

\* C9 amended: a failed interviewer call leaves the candidate message and
\* appends no interviewer message; a failed utterance leaves the interviewer
\* message that was appended before speaking; either failure changes neither
\* the transcript nor the phase and clears the loading state.
C9_FailureKeepsTranscript ==
  /\ [] ( \A i \in Cycles :
            /\ pc[i] = "callFailed" => ~cycReplied[i]
            /\ pc[i] = "speakFailed" => cycReplied[i] )
  /\ [][ \A i \in Cycles :
           (~CycleFailed(i) /\ CycleFailed(i)')
           => ( /\ messages' = messages
                /\ \E k \in 1..Len(messages) :
                     messages[k] = UserMessage(cycContent[i])
                /\ Phase' = Phase
                /\ ~isLoading' ) ]_vars

\* In one session in progress the interviewer call of the first submission
\* failed and the utterance of the second reply failed.
C9_Witness ==
  /\ Phase = "InProgress"
  /\ pc[1] = "callFailed"
  /\ pc[2] = "speakFailed"
  /\ Len(messages) = 4
  /\ ~isLoading

\* C10: a handleSendMessage call whose text is blank, or that is made once the
\* end action was taken, changes neither the transcript, the input field nor
\* the loading state and starts no interviewer call.
C10_RejectedSubmissionHasNoEffect ==
  [][ ( /\ nSubmit' = nSubmit + 1
        /\ (Trim(currentInput) = <<>> \/ isEndingInterview) )
      => UNCHANGED << messages, currentInput, isLoading, pc >> ]_vars

\* A call made after the end action with text that is not blank was rejected,
\* after an accepted one.
C10_Witness ==
  /\ isEndingInterview
  /\ lastSendOutcome = "rejectedEnding"
  /\ Trim(currentInput) # <<>>
  /\ nSubmit = 2
  /\ pc[1] # "idle"
  /\ pc[2] = "idle"

\* C11: when the end action follows the start action with no submission in
\* between, whatever the point of the start-up (the opening question not having
\* failed), the results view gets a report and a transcript of length 1.
C11_EndAfterStartStoresOpeningQuestion ==
  (navigated /\ nSubmit = 0 /\ pc[StartProc] # "failed")
  => (storedFeedback # NoReport /\ Len(storedMessages) = 1)

\* C12: on a platform without speech recognition isSpeechSupported is false, a
\* SpeechService.startListening call is rejected as unsupported and neither
\* sets the listening flag nor starts a recognition, the mic button starts
\* none either, and a typed submission that is not blank is accepted (its
\* interviewer call is made) in a session in progress, voice mode included.
C12_UnsupportedRecognitionDegradesToTyping ==
  /\ [] ( ~recognition =>
            /\ ~isSpeechSupported
            /\ lastStartOutcome \in {"none", "rejectedUnsupported"}
            /\ ~svcIsListening
            /\ recState = "idle"
            /\ ~ownerPending
            /\ ~isListening )
  /\ [][ ( /\ ~recognition
           /\ nSubmit' = nSubmit + 1
           /\ Trim(currentInput) # <<>>
           /\ Phase = "InProgress" )
         => ( /\ lastSendOutcome' = "accepted"
              /\ pc'[nSubmit'] = "awaitProcess"
              /\ messages' = Append(messages, UserMessage(Trim(currentInput))) ) ]_vars

\* A voice-mode session without recognition in which a startListening call
\* was rejected and a typed answer was sent, answered and spoken.
C12_Witness ==
  /\ ~recognition
  /\ interactionMode = "voice"
  /\ lastStartOutcome = "rejectedUnsupported"
  /\ recState = "idle"
  /\ pc[1] = "done"
  /\ Len(messages) = 3
  /\ messages[3] = AiMessage(<<"q">>)

\* C13: a request to speak empty text completes at once and makes no call on
\* the platform synthesis: the utterance being spoken is not cancelled and
\* nothing is queued.  The requests of the session are the spoken replies of the
\* turn cycles: a cycle that receives the empty reply leaves the synthesis as
\* it is and is over in the same step.
C13_EmptyTextLeavesSynthesisAlone ==
  [][ \A i \in Cycles :
        ( /\ ReplyIsSpoken(i)
          /\ ~cycReplied[i] /\ cycReplied'[i]
          /\ cycReply'[i] = <<>> )
        => ( /\ synthOwner' = synthOwner
             /\ synthWaiting' = synthWaiting
             /\ cancelledUtts' = cancelledUtts
             /\ pc'[i] = "done" ) ]_vars

\* The empty reply of the second cycle has arrived in voice mode while the
\* reply of the first cycle is still being spoken.
C13_Witness ==
  /\ interactionMode = "voice"
  /\ ~closureEnding[2]
  /\ cycReplied[2] /\ cycReply[2] = <<>> /\ pc[2] = "done"
  /\ synthOwner = 1 /\ pc[1] = "awaitSpeak"

\* C18: the platform synthesis holds at most one utterance of the service:
\* nothing is ever queued behind the utterance being spoken.  A speak call with
\* non-empty text that finds an utterance in progress cancels it before handing
\* over its own, and an utterance starts being spoken only in the step of its
\* own speak call, so that a cancelled one is never resumed or taken from a queue.
C18_AtMostOneUtterance ==
  /\ [] (synthWaiting = <<>>)
  /\ [][ \A p \in Procs :
           /\ (synthOwner = p /\ synthOwner' \notin {p, NoProc})
                => (p \in cancelledUtts' /\ pc'[synthOwner'] = "awaitSpeak")
           /\ (synthOwner # p /\ synthOwner' = p)
                => (pc[p] # "awaitSpeak" /\ pc'[p] = "awaitSpeak")
           /\ (p \in cancelledUtts)
                => (synthOwner' # p /\ \A k \in 1..Len(synthWaiting') : synthWaiting'[k] # p)
       ]_vars

\* The reply of the second cycle is being spoken; the reply of the first cycle
\* was cancelled by it and its caller still awaits it.
C18_Witness ==
  /\ synthOwner = 2 /\ pc[2] = "awaitSpeak"
  /\ 1 \in cancelledUtts /\ pc[1] = "awaitSpeak"
  /\ ~isEndingInterview

\* C17: the completion of every speak call fires exactly once.  A caller leaves
\* its wait at most once by construction of the promise; what is checked is that
\* no caller waits for ever, whether its utterance is spoken to the end, fails,
\* or is cancelled by a later speak call.
C17_EverySpeakCallCompletes ==
  \A p \in Procs : (pc[p] = "awaitSpeak") ~> (pc[p] # "awaitSpeak")

\* C20: when generateFeedback has returned a report, the session ends with that
\* report stored, whatever becomes of the update of the interview record (it
\* succeeds, returns an error, or throws): the stored report is the generated
\* one, never a substitute.
C20_UpdateFailureKeepsGeneratedReport ==
  (navigated /\ ~feedbackFailed) => storedFeedback = GeneratedFeedback

\* C19: when a listening operation ends normally, its result is the trimmed
\* concatenation of the final fragments if at least one result was marked final,
\* and the trimmed interim text of the latest result event otherwise (the empty
\* text when nothing was recognised).  Every fragment is non-empty, so that a
\* result was marked final exactly when finalTranscript is not empty; the
\* result is what the awaiting handler copies into the input field.
C19_FinalTextElseInterimText ==
  [][ ( /\ ownerPending /\ ~ownerClosureEnding
        /\ recState \in {"active", "stopping"} /\ recState' = "idle" )
      => currentInput' = IF finalTranscript # <<>> THEN Trim(finalTranscript)
                                                  ELSE Trim(interimTranscript) ]_vars

\* The orders in which a list of voices can be enumerated
Orders(vs) ==
  { [i \in 1..Len(vs) |-> vs[f[i]]] : f \in Permutations(1..Len(vs)) }

\* C14: voice selection is a function of the set of available voices only: a
\* further call on the loaded list returns the selected voice again, and so
\* does a call on the same voices enumerated in any other order.
C14_SelectionIndependentOfOrder ==
  /\ selectOptimalVoice(voices) = selectedVoice
  /\ \A other \in Orders(voices) : selectOptimalVoice(other) = selectedVoice

\* C15: no voice is selected if and only if no voice is available; a selected
\* voice is one of the available voices, and it is the first of them when none
\* has an English language tag.
C15_NoVoiceOnlyForEmptySet ==
  /\ (selectedVoice = NoVoice) <=> (voices = <<>>)
  /\ voices # <<>> => \E k \in 1..Len(voices) : voices[k] = selectedVoice
  /\ (voices # <<>> /\ AnyEnglish(voices) = {}) => selectedVoice = voices[1]

\* The value applied for a parameter: the supplied one if there is one,
\* the default otherwise
Applied(supplied, default) == IF supplied # NotSupplied THEN supplied ELSE default

\* C16: the utterance a speak call builds has, for each of rate, pitch and
\* volume, the value the caller supplied, 0 included, and the default (0.9,
\* 1.0, 0.85) only where the caller supplied none.
C16_SuppliedParametersApplied ==
  utterance # NoUtterance =>
    /\ utterance.rate = Applied(callOptions.rate, DefaultRate)
    /\ utterance.pitch = Applied(callOptions.pitch, DefaultPitch)
    /\ utterance.volume = Applied(callOptions.volume, DefaultVolume)

\* C21: a failed create of the interview record does not keep the session from
\* starting, and the end flow hands a report to the results view in any case.
\* When the report was generated and the create issued at start has completed,
\* the update of the record was issued exactly if that create returned an id,
\* whether the create completed before or after the end action.
C21_UpdateIssuedIffRecordCreated ==
  (navigated /\ ~feedbackFailed /\ pc[StartProc] \notin {"idle", "awaitCreate"})
    => /\ storedFeedback # NoReport
       /\ (endFeedback # NoReport) <=> (interviewId = RecordId)

\* The phases in the order the session goes through them
PhaseOrder == << "NotStarted", "InProgress", "Ending", "Ended" >>

PhaseIndex(phase) == CHOOSE k \in 1..Len(PhaseOrder) : PhaseOrder[k] = phase

\* C22: the phase only moves forward along NotStarted, InProgress, Ending,
\* Ended, one phase at a time: a started session never returns to NotStarted,
\* and once the end action was taken the session never returns to InProgress
\* and reaches Ended only from Ending.
C22_PhaseOnlyMovesForward ==
  [][ LET before == PhaseIndex(Phase)
          after == PhaseIndex(Phase')
      IN after = before \/ after = before + 1 ]_vars

\* A session that was started, in which the candidate listened and sent an
\* answer, and that has ended.
C22_Witness ==
  /\ Phase = "Ended"
  /\ lastStartOutcome = "started"
  /\ nSubmit >= 1 /\ lastSendOutcome = "accepted"

\* The steps of startInterview and handleSendMessage at which a call on the
\* interviewer, the record store or the synthesis is outstanding
OutstandingSteps == { "awaitCreate", "awaitFirstQ", "awaitProcess", "awaitSpeak" }

Outstanding == { p \in Procs : pc[p] \in OutstandingSteps }

\* C23: at most one processResponse call is outstanding at any time, and at
\* most one of start-up and the turn cycles is under way.  While the opening
\* question is being fetched, or the interviewer call or the reply step of a
\* submission is outstanding, no submission gets through: none is counted,
\* no further cycle starts, nothing is queued.
C23_OneInterviewerCallAtATime ==
  /\ [] (Cardinality(Outstanding) <= 1)
  /\ [][ Outstanding # {} =>
           /\ nSubmit' = nSubmit
           /\ \A i \in Cycles : pc[i] = "idle" => pc'[i] = "idle" ]_vars

\* The interviewer call of the first submission is outstanding while the input
\* field holds an answer (recognised in the meantime) that the candidate could
\* otherwise send.
C23_Witness ==
  /\ pc[1] = "awaitProcess"
  /\ Trim(currentInput) # <<>>
  /\ sessionStarted /\ ~isEndingInterview

\* C24: the elapsed-time counter is 0 until the session is started; a step
\* either leaves it as it is or adds exactly one to it, and it adds one only
\* while the phase is InProgress, so that the counter never decreases and
\* keeps its value from the end action on.
C24_ElapsedTimeCountsOnlyInProgress ==
  /\ [] (Phase = "NotStarted" => timeElapsed = 0)
  /\ [][ \/ timeElapsed' = timeElapsed
         \/ (timeElapsed' = timeElapsed + 1 /\ Phase = "InProgress") ]_vars

\* A session that ended after the timer had ticked, with no timer left.
C24_Witness ==
  /\ Phase = "Ended"
  /\ timeElapsed = MaxTime
  /\ tickTimers = 0

\* The recognition safety timeouts that are scheduled
RecognitionTimeouts == (IF ownerTimeout THEN 1 ELSE 0) + staleTimeouts

\* C25: at most one elapsed-time timer and at most one recognition safety
\* timeout are scheduled at any time; once the session has ended (its view is
\* torn down then) and no recognition is under way, whichever way the
\* listening operations finished, no timer of either kind is scheduled.
C25_NoTimerLeftScheduled ==
  /\ tickTimers <= 1
  /\ RecognitionTimeouts <= 1
  /\ (navigated /\ recState = "idle")
       => (tickTimers = 0 /\ ~timerRef /\ RecognitionTimeouts = 0)

\* The session was ended while a recognition with its safety timeout was
\* under way; the recognition has since failed and ended.
C25_Witness ==
  /\ navigated /\ recState = "idle"
  /\ lastStartOutcome = "started"
  /\ ownerClosureEnding = FALSE
  /\ isEndingInterview
  /\ ~ownerPending /\ ~isListening
  /\ pc[StartProc] = "done"

\* The entries of the preference list that some voice of the list is named
\* exactly as
ExactEntries(vs) ==
  { k \in 1..Len(preferredVoices) :
      \E i \in 1..Len(vs) : vs[i].name = preferredVoices[k].name }

\* C26: when some available voice is named exactly as an entry of the
\* preference list, the selected voice is named exactly as the first such
\* entry of the list.
C26_FirstExactEntryIsSelected ==
  ExactEntries(voices) # {}
    => /\ selectedVoice # NoVoice
       /\ selectedVoice.name = preferredVoices[FirstIndex(ExactEntries(voices))].name

\* C27: over any sequence of end actions the final report is requested at
\* most once and the record update is issued at most once; while the first
\* end action is in progress a further one requests nothing.
C27_ReportAndUpdateAtMostOnce ==
  /\ [] (endRequests.feedback <= 1 /\ endRequests.update <= 1)
  /\ [][ isEndingInterview => endRequests'.feedback = endRequests.feedback ]_vars

C27_Witness ==
  /\ navigated
  /\ endRequests = [feedback |-> 1, update |-> 1]
  /\ pc[StartProc] = "done"

\* C28: a non-empty transcript begins with an interviewer message, and no
\* step turns an empty transcript into one that begins with a candidate
\* message, also after the request for the opening question has failed.
C28_TranscriptBeginsWithInterviewer ==
  /\ [] (messages # <<>> => messages[1].type = "ai")
  /\ [][ (messages = <<>> /\ messages' # <<>>) => messages'[1].type = "ai" ]_vars

\* s is an initial segment of t
IsPrefix(s, t) == Len(s) <= Len(t) /\ SubSeq(t, 1, Len(s)) = s

\* C29: the transcript is append-only: every step leaves the transcript it
\* found as an initial segment of the transcript it produces.
C29_TranscriptIsAppendOnly ==
  [][ IsPrefix(messages, messages') ]_vars

\* The opening question, two answers and their replies were appended in turn.
C29_Witness ==
  /\ Len(messages) = 5
  /\ messages[1].type = "ai"
  /\ pc[StartProc] = "done"
  /\ pc[1] = "done" /\ pc[2] = "done"

\* The speak call of p was cut short by the speaker button: its utterance was
\* cancelled while the interview is in progress and p still awaits it.
StoppedByCandidate(p) ==
  /\ interactionMode = "voice"
  /\ p \in cancelledUtts
  /\ pc[p] = "awaitSpeak"
  /\ ~isEndingInterview

\* C30: in voice mode, when the candidate stops the speech of the opening
\* question or of a reply, the start-up or turn cycle awaiting that speech
\* eventually completes: loading ends and an answer can be typed and sent
\* again, unless the interview is ended first.
C30_StoppedSpeechLetsCycleComplete ==
  \A p \in Procs :
    StoppedByCandidate(p) ~> ((pc[p] # "awaitSpeak" /\ ~isLoading) \/ isEndingInterview)

====
